---------------------------- MODULE Spec2Model ----------------------------
(***************************************************************************)
(* Model of animatedprideflags (src/main.py): the striped-flag data types  *)
(* (FlagStripe, FlagImage, Flag), stripe splitting, the midpoint landmark, *)
(* the eased interpolation of two flags and the frame callback update().   *)
(*                                                                         *)
(* The clock (current_time, frame_delta, percent and what is computed      *)
(* from percent by float operations) is IEEE-754 binary64, each operation  *)
(* rounded to nearest, ties to even: repeated addition of 1.0 / RENDER_FPS *)
(* does not land on the whole seconds, and that decides which call first   *)
(* sees the end of the timeline.  Stripe sizes, colours and image          *)
(* coordinates are exact rationals <<numerator, denominator>> in lowest    *)
(* terms: they pass through the sympy solution of the easing cubic, whose  *)
(* floating evaluation is resolved on a grid here, so properties of sizes  *)
(* are properties of the arithmetic without rounding error.                *)
(*                                                                         *)
(* Python lists are 0-based, sequences here are 1-based: a Python index i  *)
(* is element i + 1.  on_draw() only reads draw_flag and the image objects *)
(* and is not an action.  render is the module-level switch of             *)
(* main.py:253; both of its values are explored.                           *)
(***************************************************************************)
EXTENDS Integers, Sequences, FiniteSets, TLC

VARIABLES
    current_time,   \* main.py:291  animation time in seconds (a float)
    draw_flag,      \* main.py:295  the flag on_draw() draws
    images,         \* the FlagImage objects, by identity: id -> fields
    render,         \* main.py:253  render-to-disk switch
    running,        \* the pyglet event loop runs (main.py:301) and no exit is requested
    frame_delta,    \* argument of the most recent update() call
    last,           \* what the most recent update() call did (observation only)
    error,          \* exception raised by the most recent call, "none" if none
    call,           \* function harness: the pending call and its arguments
    ret             \* function harness: what the call returned

vars == <<current_time, draw_flag, images, render, running, frame_delta,
          last, error, call, ret>>

---------------------------------------------------------------------------
(* Bounds of the model *)

\* largest frame_delta of live mode, in units of 2^-LiveBits seconds
MaxDelta == 2
\* live mode: frame_delta is a multiple of 2^-LiveBits seconds
LiveBits == 3
\* live mode: update() is not called once current_time exceeds MaxTime seconds
MaxTime == 14
\* the Bezier parameter t is resolved on a grid of 2^-EaseBits
EaseBits == 4
\* harness: longest colour list given to Flag()
MaxStripes == 4
\* harness: largest num_of_stripes given to Flag.split
MaxSplit == 7
\* harness: transition_flags is called at percent k * 2^-PctBits < 1
PctBits == 2

---------------------------------------------------------------------------
(* arithmetic without rounding error: rationals *)

Abs(n) == IF n < 0 THEN -n ELSE n

RECURSIVE GCD(_, _)
GCD(a, b) == IF b = 0 THEN a ELSE GCD(b, a % b)

\* n / d in lowest terms, g their greatest common divisor
Lowest(n, d, g) == <<n \div g, d \div g>>

Rat(n, d) == Lowest(n, d, GCD(Abs(n), d))

RInt(n) == <<n, 1>>

\* a + b, g the greatest common divisor of the denominators
AddOver(a, b, g) ==
    Rat(a[1] * (b[2] \div g) + b[1] * (a[2] \div g), (a[2] \div g) * b[2])

RAdd(a, b) == AddOver(a, b, GCD(a[2], b[2]))

RNeg(a) == <<-a[1], a[2]>>

RSub(a, b) == RAdd(a, RNeg(b))

\* a * b, cancelling g1 = gcd(a[1], b[2]) and g2 = gcd(b[1], a[2]) first
MulOver(a, b, g1, g2) ==
    Rat((a[1] \div g1) * (b[1] \div g2), (a[2] \div g2) * (b[2] \div g1))

RMul(a, b) == MulOver(a, b, GCD(Abs(a[1]), b[2]), GCD(Abs(b[1]), a[2]))

\* a / b for b # 0
RDiv(a, b) ==
    RMul(a, IF b[1] > 0 THEN <<b[2], b[1]>> ELSE <<-b[2], -b[1]>>)

\* a < b, g the greatest common divisor of the denominators
LtOver(a, b, g) == a[1] * (b[2] \div g) < b[1] * (a[2] \div g)

RLt(a, b) == LtOver(a, b, GCD(a[2], b[2]))

RLe(a, b) == ~RLt(b, a)

RMin(a, b) == IF RLt(b, a) THEN b ELSE a

RMax(a, b) == IF RLt(a, b) THEN b ELSE a

RECURSIVE RSum(_)
RSum(s) == IF s = <<>> THEN RInt(0) ELSE RAdd(Head(s), RSum(Tail(s)))

---------------------------------------------------------------------------
(* float arithmetic of the clock: IEEE-754 binary64 *)

\* A value is <<n, a, b, c>> = n + a / Limb + b / Limb^2 + c / Limb^3 with
\* 0 <= a, b, c < Limb: every float met here is a non-negative multiple of
\* 2^-60 below 2^10.  A float has at most MantissaBits significant bits.
Limb == 2^20

MantissaBits == 53

\* number of bits of n >= 0
RECURSIVE BitLen(_)
BitLen(n) == IF n = 0 THEN 0 ELSE 1 + BitLen(n \div 2)

\* carries (and borrows) propagated from the lowest limb upwards
Carry3(n, a, low) == <<n + a \div Limb, a % Limb, low[1], low[2]>>

Carry2(n, a, low) == Carry3(n, a + low[1] \div Limb, <<low[1] % Limb, low[2]>>)

Carry(n, a, b, c) == Carry2(n, a, <<b + c \div Limb, c % Limb>>)

\* number of bits of v counted in units of 2^-60
Msb(v) ==
    IF v[1] > 0 THEN 3 * 20 + BitLen(v[1])
    ELSE IF v[2] > 0 THEN 2 * 20 + BitLen(v[2])
    ELSE IF v[3] > 0 THEN 20 + BitLen(v[3])
    ELSE BitLen(v[4])

\* v rounded to a multiple of unit * 2^-60, r = the part of v below unit;
\* sticky: the exact value lies above v.  Nearest, ties to even
RoundAt(v, sticky, unit, r) ==
    IF \/ 2 * r > unit
       \/ 2 * r = unit /\ (sticky \/ (v[4] \div unit) % 2 = 1)
    THEN Carry(v[1], v[2], v[3], v[4] - r + unit)
    ELSE <<v[1], v[2], v[3], v[4] - r>>

\* v with its s lowest bits rounded away
RoundBits(v, sticky, s) ==
    IF s <= 0 THEN v ELSE RoundAt(v, sticky, 2^s, v[4] % (2^s))

\* the float nearest to the exact value v (+ less than 2^-60 if sticky)
Round53(v, sticky) == RoundBits(v, sticky, Msb(v) - MantissaBits)

\* float(n) for an int 0 <= n < 2^10
DInt(n) == <<n, 0, 0, 0>>

\* p + q
DAdd(p, q) ==
    Round53(Carry(p[1] + q[1], p[2] + q[2], p[3] + q[3], p[4] + q[4]), FALSE)

\* p - q for p >= q
DSub(p, q) ==
    Round53(Carry(p[1] - q[1], p[2] - q[2], p[3] - q[3], p[4] - q[4]), FALSE)

\* k * p for an int 0 <= k < 2^10
DMulInt(k, p) ==
    Round53(Carry(k * p[1], k * p[2], k * p[3], k * p[4]), FALSE)

\* p / d for an int 0 < d < 2^10 and a quotient of at least 2^-7: long
\* division limb by limb, r the remainder carried down
DivC(n, a, b, r, c, d) ==
    Round53(<<n, a, b, (r * Limb + c) \div d>>, (r * Limb + c) % d # 0)

DivB(n, a, r, p, d) ==
    DivC(n, a, (r * Limb + p[3]) \div d, (r * Limb + p[3]) % d, p[4], d)

DivA(n, r, p, d) ==
    DivB(n, (r * Limb + p[2]) \div d, (r * Limb + p[2]) % d, p, d)

DDivInt(p, d) == DivA(p[1] \div d, p[1] % d, p, d)

DLt(p, q) ==
    \/ p[1] < q[1]
    \/ p[1] = q[1] /\ p[2] < q[2]
    \/ p[1] = q[1] /\ p[2] = q[2] /\ p[3] < q[3]
    \/ p[1] = q[1] /\ p[2] = q[2] /\ p[3] = q[3] /\ p[4] < q[4]

DLe(p, q) == ~DLt(q, p)

DMin(p, q) == IF DLt(q, p) THEN q ELSE p

DMax(p, q) == IF DLt(p, q) THEN q ELSE p

\* math.floor(p) and int(p)
DFloor(p) == p[1]

\* p % 1 (exact)
DMod1(p) == <<0, p[2], p[3], p[4]>>

\* round(p) of Python 3: to the nearest integer, ties to even
DRound(p) ==
    IF DLt(<<0, Limb \div 2, 0, 0>>, DMod1(p)) THEN p[1] + 1
    ELSE IF DLt(DMod1(p), <<0, Limb \div 2, 0, 0>>) THEN p[1]
    ELSE IF p[1] % 2 = 0 THEN p[1] ELSE p[1] + 1

\* the float equal to the rational q, whose denominator is a power of two
\* that divides Limb
DFromRat(q) == <<q[1] \div q[2], (q[1] % q[2]) * (Limb \div q[2]), 0, 0>>

\* the rational equal to the float p resolved to 1 / Limb
DToRat(p) == RAdd(RInt(p[1]), Rat(p[2], Limb))

---------------------------------------------------------------------------
(* module constants *)

RENDER_FPS == 50

time_to_transition == 1

beizer == TRUE

---------------------------------------------------------------------------
(* webcolors.hex_to_rgb: a colour string is a sequence of characters *)

HexDigit(c) ==
    CASE c = "0" -> 0  [] c = "1" -> 1  [] c = "2" -> 2  [] c = "3" -> 3
      [] c = "4" -> 4  [] c = "5" -> 5  [] c = "6" -> 6  [] c = "7" -> 7
      [] c = "8" -> 8  [] c = "9" -> 9
      [] c \in {"a", "A"} -> 10  [] c \in {"b", "B"} -> 11
      [] c \in {"c", "C"} -> 12  [] c \in {"d", "D"} -> 13
      [] c \in {"e", "E"} -> 14  [] c \in {"f", "F"} -> 15

\* s is "#" followed by six hexadecimal digits
hex_to_rgb(s) ==
    <<RInt(16 * HexDigit(s[2]) + HexDigit(s[3])),
      RInt(16 * HexDigit(s[4]) + HexDigit(s[5])),
      RInt(16 * HexDigit(s[6]) + HexDigit(s[7]))>>

---------------------------------------------------------------------------
(* class FlagStripe *)

FlagStripe(color, size) == [color |-> color, size |-> size]

\* faulty variant of FlagStripe.__add__: the other stripe's size is dropped
StripeAddKeep(self, other) == FlagStripe(self.color, self.size)

\* FlagStripe.__add__; the else branch of the source builds a generator
\* object, not a colour tuple
StripeAdd(self, other) ==
    IF self.color = other.color
    THEN FlagStripe(self.color, RAdd(self.size, other.size))
    ELSE FlagStripe(<<"generator">>, RAdd(self.size, other.size))

\* faulty variant of FlagStripe.split: the size is not divided
StripeSplitWhole(self, times) ==
    [i \in 1..times |-> FlagStripe(self.color, self.size)]

\* FlagStripe.split: `times` stripes of the same colour, each size / times
StripeSplit(self, times) ==
    [i \in 1..times |-> FlagStripe(self.color, RDiv(self.size, RInt(times)))]

---------------------------------------------------------------------------
(* class FlagImage: the fields set by the constructor; sprite is the picture *)

FlagImage(im, x, y, opacity, scale, f_type) ==
    [name |-> im, sprite |-> im, x |-> x, y |-> y, opacity |-> opacity,
     scale |-> scale, type |-> f_type]

\* FlagImage(im) with the defaults of the signature
FlagImageDefault(im, f_type) ==
    FlagImage(im, Rat(1, 2), Rat(1, 2), 1, RInt(1), f_type)

---------------------------------------------------------------------------
(* class Flag *)

\* a colour-string argument of Flag()
S(chars) == [kind |-> "str", val |-> chars]

\* a FlagStripe argument of Flag()
FS(stripe) == [kind |-> "FlagStripe", val |-> stripe]

Reverse(s) == [i \in 1..Len(s) |-> s[Len(s) + 1 - i]]

\* main.py:89-99: one input of Flag() as a FlagStripe; n is len(stripes)
InputStripe(s, n) ==
    IF s.kind = "FlagStripe"
    THEN s.val
    ELSE FlagStripe(hex_to_rgb(IF s.val[1] = "#" THEN s.val ELSE <<"#">> \o s.val),
                    Rat(1, n))

\* main.py:101-107: merge each stripe into the previous one when the colours
\* are equal
RECURSIVE Combine(_, _)
Combine(combined_stripes, rest) ==
    IF rest = <<>>
    THEN combined_stripes
    ELSE IF /\ Len(combined_stripes) > 0
            /\ Head(rest).color = combined_stripes[Len(combined_stripes)].color
         THEN Combine([combined_stripes EXCEPT ![Len(combined_stripes)] =
                          StripeAdd(combined_stripes[Len(combined_stripes)],
                                    Head(rest))],
                      Tail(rest))
         ELSE Combine(Append(combined_stripes, Head(rest)), Tail(rest))

\* faulty variant of main.py:100-107: the stripes are never combined
WithCombineOff(stripes, allow_stripes_to_combine) == stripes

\* main.py:100-107
WithCombine(stripes, allow_stripes_to_combine) ==
    IF allow_stripes_to_combine THEN Combine(<<>>, stripes) ELSE stripes

\* main.py:108-109
WithReverse(stripes, reverse) == IF reverse THEN Reverse(stripes) ELSE stripes

\* a list of FlagStripe objects as the argument of Flag()
Stripes(list) == [i \in 1..Len(list) |-> FS(list[i])]

\* Flag.__init__; imgs are the ids of FlagImage objects, name is the string
\* as the sequence of its parts
FlagInit(stripes, imgs, name, reverse, allow_stripes_to_combine) ==
    [stripes |-> WithReverse(
                     WithCombine([i \in 1..Len(stripes) |->
                                     InputStripe(stripes[i], Len(stripes))],
                                 allow_stripes_to_combine),
                     reverse),
     images |-> imgs,
     name |-> name]

\* math.ceil(a / b) for positive integers
CeilDiv(a, b) == (a + b - 1) \div b

\* faulty variant of the loop of Flag.split: a split into split_by stripes is
\* counted as split_by new stripes
RECURSIVE SplitLoopMiscount(_, _, _, _)
SplitLoopMiscount(stripes, split_by, new_stripes_to_add, output) ==
    IF stripes = <<>>
    THEN output
    ELSE IF new_stripes_to_add >= split_by
         THEN SplitLoopMiscount(Tail(stripes), split_by,
                                new_stripes_to_add - split_by,
                                output \o StripeSplit(Head(stripes), split_by))
         ELSE IF new_stripes_to_add > 0
         THEN SplitLoopMiscount(Tail(stripes), split_by, 0,
                                output \o StripeSplit(Head(stripes),
                                                      new_stripes_to_add + 1))
         ELSE SplitLoopMiscount(Tail(stripes), split_by, new_stripes_to_add,
                                Append(output, Head(stripes)))

\* main.py:141-149: the loop of Flag.split over the stripes
RECURSIVE SplitLoop(_, _, _, _)
SplitLoop(stripes, split_by, new_stripes_to_add, output) ==
    IF stripes = <<>>
    THEN output
    ELSE IF new_stripes_to_add >= split_by
         THEN SplitLoop(Tail(stripes), split_by,
                        new_stripes_to_add - (split_by - 1),
                        output \o StripeSplit(Head(stripes), split_by))
         ELSE IF new_stripes_to_add > 0
         THEN SplitLoop(Tail(stripes), split_by, 0,
                        output \o StripeSplit(Head(stripes), new_stripes_to_add + 1))
         ELSE SplitLoop(Tail(stripes), split_by, new_stripes_to_add,
                        Append(output, Head(stripes)))

\* Flag.split past its assertion
Split(self, num_of_stripes) ==
    FlagInit(Stripes(SplitLoop(self.stripes,
                               CeilDiv(num_of_stripes, Len(self.stripes)),
                               num_of_stripes - Len(self.stripes),
                               <<>>)),
             self.images, self.name, FALSE, FALSE)

\* the assertion of Flag.split
SplitAssert(self, num_of_stripes) == num_of_stripes > Len(self.stripes)

\* faulty variant of the loop of Flag.midpoint: `<=` for `<`
RECURSIVE MidpointLoopLe(_, _, _)
MidpointLoopLe(stripes, rolling_sum, numstripes) ==
    IF stripes = <<>>
    THEN [rolling_sum |-> rolling_sum, numstripes |-> numstripes,
          final_stripe_size |-> RInt(0)]
    ELSE IF RLe(RAdd(rolling_sum, Head(stripes).size), Rat(1, 2))
         THEN MidpointLoopLe(Tail(stripes),
                             RAdd(rolling_sum, Head(stripes).size),
                             numstripes + 1)
         ELSE [rolling_sum |-> rolling_sum, numstripes |-> numstripes,
               final_stripe_size |-> Head(stripes).size]

\* main.py:156-162: the loop of Flag.midpoint
RECURSIVE MidpointLoop(_, _, _)
MidpointLoop(stripes, rolling_sum, numstripes) ==
    IF stripes = <<>>
    THEN [rolling_sum |-> rolling_sum, numstripes |-> numstripes,
          final_stripe_size |-> RInt(0)]
    ELSE IF RLt(RAdd(rolling_sum, Head(stripes).size), Rat(1, 2))
         THEN MidpointLoop(Tail(stripes), RAdd(rolling_sum, Head(stripes).size),
                           numstripes + 1)
         ELSE [rolling_sum |-> rolling_sum, numstripes |-> numstripes,
               final_stripe_size |-> Head(stripes).size]

\* Flag.midpoint: the 0-based index of the stripe holding height 0.5 and how
\* high up in it; a final_stripe_size of 0 raises ZeroDivisionError
MidpointReturn(m) ==
    IF m.final_stripe_size = RInt(0)
    THEN [error |-> "ZeroDivisionError", index |-> m.numstripes,
          height |-> RInt(0)]
    ELSE [error |-> "none", index |-> m.numstripes,
          height |-> RDiv(RSub(Rat(1, 2), m.rolling_sum), m.final_stripe_size)]

Midpoint(self) == MidpointReturn(MidpointLoop(self.stripes, RInt(0), 0))


---------------------------------------------------------------------------
(* the easing curve and the interpolation *)

\* the number of grid steps of the Bezier parameter t
EaseGrid == 2^EaseBits

\* x(t) of the cubic Bezier curve with nodes (0,0) (.5,0) (.5,1) (1,1), at
\* t = j / EaseGrid:  x = 1.5 t - 1.5 t^2 + t^3
BezierX(j) ==
    Rat(3 * j * EaseGrid * EaseGrid - 3 * j * j * EaseGrid + 2 * j * j * j,
        2 * EaseGrid * EaseGrid * EaseGrid)

\* y(t) of that curve at t = j / EaseGrid:  y = 3 t^2 - 2 t^3
BezierY(j) ==
    Rat(3 * j * j * EaseGrid - 2 * j * j * j, EaseGrid * EaseGrid * EaseGrid)

\* the curve's x at every grid point, as floats (they are exact)
BezierXs == [j \in 0..EaseGrid + 1 |-> DFromRat(BezierX(j))]

\* beizerexpr.subs(x, percent): the y of the curve at x = percent.  x(t) is
\* strictly increasing; t is resolved to the grid point at or below the
\* solution of x(t) = percent
beizerexpr(percent) ==
    BezierY(CHOOSE k \in 0..EaseGrid :
                /\ DLe(BezierXs[k], percent)
                /\ k = EaseGrid \/ DLt(percent, BezierXs[k + 1]))

\* faulty variant of main.py:174: the end value is not weighted
BlendUnweighted(start, end, percent) ==
    RAdd(RMul(start, RSub(RInt(1), percent)), end)

\* main.py:174: the linear blend at the (eased) percent
Blend(start, end, percent) ==
    RAdd(RMul(start, RSub(RInt(1), percent)), RMul(end, percent))

\* main.py:169-172: the percent clamped to [0, 1], then eased.  The branch
\* without easing is not taken (beizer is True, main.py:252); there the
\* percent is resolved to 1 / Limb
Eased(percent) ==
    IF beizer
    THEN beizerexpr(DMax(DMin(percent, DInt(1)), DInt(0)))
    ELSE DToRat(DMax(DMin(percent, DInt(1)), DInt(0)))

\* transition(start, end, percent)
Transition(start, end, percent) == Blend(start, end, Eased(percent))

\* main.py:179-187: the interpolated stripe for stripe1 and stripe2
TransitionStripe(stripe1, stripe2, percent) ==
    FlagStripe(<<Transition(stripe1.color[1], stripe2.color[1], percent),
                 Transition(stripe1.color[2], stripe2.color[2], percent),
                 Transition(stripe1.color[3], stripe2.color[3], percent)>>,
               Transition(stripe1.size, stripe2.size, percent))

\* main.py:189-190 and 192-193: the height of a midpoint in outflag
MidpointHeight(outflag, index_of_midpoint, height_of_midpoint_in_stripe) ==
    RAdd(RSum([i \in 1..index_of_midpoint |-> outflag[i].size]),
         RMul(outflag[index_of_midpoint + 1].size, height_of_midpoint_in_stripe))

\* main.py:197 and 205: int(255 * (1 - percent)) and int(255 * percent)
Opacity1(percent) == DFloor(DMulInt(255, DSub(DInt(1), percent)))

Opacity2(percent) == DFloor(DMulInt(255, percent))

\* faulty variant of main.py:197-201: y is set whatever the image's type
Image1AnyType(image, percent, height_of_midpoint_1) ==
    IF image.type = "left"
    THEN [image EXCEPT
             !.opacity = Opacity1(percent),
             !.y = height_of_midpoint_1,
             !.x = Transition(Rat(1, 2), RInt(0), percent)]
    ELSE [image EXCEPT
             !.opacity = Opacity1(percent),
             !.y = height_of_midpoint_1]

\* main.py:197-201: the outgoing flag's image, mutated in place
Image1(image, percent, height_of_midpoint_1) ==
    IF image.type = "center"
    THEN [image EXCEPT
             !.opacity = Opacity1(percent),
             !.y = height_of_midpoint_1]
    ELSE IF image.type = "left"
    THEN [image EXCEPT
             !.opacity = Opacity1(percent),
             !.x = Transition(Rat(1, 2), RInt(0), percent)]
    ELSE [image EXCEPT
             !.opacity = Opacity1(percent)]

\* main.py:205-209: the incoming flag's image, mutated in place
Image2(image, percent, height_of_midpoint_2) ==
    IF image.type = "center"
    THEN [image EXCEPT !.opacity = Opacity2(percent),
                       !.y = height_of_midpoint_2]
    ELSE IF image.type = "left"
    THEN [image EXCEPT !.opacity = Opacity2(percent),
                       !.x = Transition(RInt(0), Rat(1, 2), percent)]
    ELSE [image EXCEPT !.opacity = Opacity2(percent)]

\* main.py:195-202: the loop over flag1.images; heap is the image objects
RECURSIVE Images1(_, _, _, _)
Images1(ids, heap, percent, h1) ==
    IF ids = <<>> THEN heap
    ELSE Images1(Tail(ids),
                 [heap EXCEPT ![Head(ids)] = Image1(heap[Head(ids)], percent, h1)],
                 percent, h1)

\* main.py:203-210: the loop over flag2.images
RECURSIVE Images2(_, _, _, _)
Images2(ids, heap, percent, h2) ==
    IF ids = <<>> THEN heap
    ELSE Images2(Tail(ids),
                 [heap EXCEPT ![Head(ids)] = Image2(heap[Head(ids)], percent, h2)],
                 percent, h2)

\* the result of a transition_flags call that raised `e`
Raised(e, heap) == [error |-> e, images |-> heap]

\* main.py:178-187: the interpolated stripes
Outflag(flag1, flag2, percent) ==
    [i \in 1..Len(flag1.stripes) |->
        TransitionStripe(flag1.stripes[i], flag2.stripes[i], percent)]

\* main.py:194-211: the images mutated and the flag returned, h1 and h2 the
\* two midpoint heights
TransitionReturn(flag1, flag2, percent, heap, outflag, m1, m2, h1, h2) ==
    [error |-> "none",
     images |-> Images2(flag2.images,
                        Images1(flag1.images, heap, percent, h1), percent, h2),
     outflag |-> outflag,
     index_of_midpoint_1 |-> m1.index,
     height_of_midpoint_in_stripe_1 |-> m1.height,
     height_of_midpoint_1 |-> h1,
     index_of_midpoint_2 |-> m2.index,
     height_of_midpoint_in_stripe_2 |-> m2.height,
     height_of_midpoint_2 |-> h2,
     flag |-> FlagInit(Stripes(outflag), flag1.images \o flag2.images,
                       flag1.name \o <<"->">> \o flag2.name \o
                         <<" ", ToString(DRound(DMulInt(100, percent))), "%">>,
                       FALSE, TRUE)]

\* main.py:188-193: the two midpoints m2, m1 and their heights in outflag
TransitionMidpoints(flag1, flag2, percent, heap, outflag, m2, m1) ==
    IF m2.error # "none" THEN Raised(m2.error, heap)
    ELSE IF m2.index >= Len(outflag) THEN Raised("IndexError", heap)
    ELSE IF m1.error # "none" THEN Raised(m1.error, heap)
    ELSE IF m1.index >= Len(outflag) THEN Raised("IndexError", heap)
    ELSE TransitionReturn(flag1, flag2, percent, heap, outflag, m1, m2,
                          MidpointHeight(outflag, m1.index, m1.height),
                          MidpointHeight(outflag, m2.index, m2.height))

\* transition_flags(flag1, flag2, percent) on the image objects `heap`: the
\* returned flag, the image objects afterwards and the values computed on
\* the way; an index past the end of a list raises IndexError
TransitionFlags(flag1, flag2, percent, heap) ==
    IF Len(flag2.stripes) < Len(flag1.stripes)
    THEN Raised("IndexError", heap)
    ELSE TransitionMidpoints(flag1, flag2, percent, heap,
                             Outflag(flag1, flag2, percent),
                             Midpoint(flag2), Midpoint(flag1))

---------------------------------------------------------------------------
(* module state: the timelines and their image objects *)

flags == <<
    FlagInit(<<S(<<"#","e","4","0","3","0","3">>),
               S(<<"#","f","f","8","c","0","0">>),
               S(<<"#","f","f","e","d","0","0">>),
               S(<<"0","0","8","0","2","6">>),
               S(<<"0","0","4","d","f","f">>),
               S(<<"7","5","0","7","8","7">>)>>,
             <<>>, <<"gay">>, TRUE, TRUE),
    FlagInit(<<S(<<"5","5","c","d","f","c">>),
               S(<<"f","7","a","8","b","8">>),
               S(<<"f","f","f","f","f","f">>),
               S(<<"f","7","a","8","b","8">>),
               S(<<"5","5","c","d","f","c">>)>>,
             <<>>, <<"trans">>, TRUE, TRUE),
    FlagInit(<<S(<<"#","F","E","2","1","8","B">>),
               S(<<"f","e","d","7","0","0">>),
               S(<<"2","1","b","0","f","e">>)>>,
             <<>>, <<"pan">>, TRUE, TRUE),
    FlagInit(<<S(<<"#","C","D","0","0","6","7">>),
               S(<<"#","C","D","0","0","6","7">>),
               S(<<"#","9","9","3","3","9","9">>),
               S(<<"#","0","0","3","3","9","9">>),
               S(<<"#","0","0","3","3","9","9">>)>>,
             <<>>, <<"bi">>, TRUE, TRUE),
    FlagInit(<<S(<<"#","F","D","F","4","3","3">>),
               S(<<"#","f","f","f","f","f","f">>),
               S(<<"#","9","A","5","A","C","F">>),
               S(<<"#","2","D","2","E","2","C">>)>>,
             <<>>, <<"NB">>, TRUE, TRUE),
    FlagInit(<<S(<<"#","0","1","8","E","7","0">>),
               S(<<"#","9","A","E","9","C","3">>),
               S(<<"#","f","f","f","f","f","f">>),
               S(<<"#","7","C","A","F","E","4">>),
               S(<<"#","3","C","1","3","7","9">>)>>,
             <<>>, <<"vincian">>, TRUE, TRUE),
    FlagInit(<<S(<<"#","0","0","0","0","0","0">>),
               S(<<"#","A","3","A","3","A","3">>),
               S(<<"#","f","f","f","f","f","f">>),
               S(<<"#","8","0","0","0","8","0">>)>>,
             <<>>, <<"ace">>, TRUE, TRUE),
    FlagInit(<<S(<<"d","4","2","c","0","0">>),
               S(<<"f","d","9","8","5","5">>),
               S(<<"f","f","f","f","f","f">>),
               S(<<"d","1","6","1","a","2">>),
               S(<<"a","2","0","1","6","1">>)>>,
             <<>>, <<"lesbiab">>, TRUE, TRUE),
    FlagInit(<<S(<<"f","e","8","c","a","9">>),
               S(<<"f","f","f","f","f","f">>),
               S(<<"f","e","8","c","a","9">>)>>,
             <<"sapphic-flower.png">>, <<"sapphic">>, TRUE, TRUE),
    FlagInit(<<S(<<"3","c","a","5","4","2">>),
               S(<<"a","8","d","3","7","7">>),
               S(<<"f","e","f","e","f","e">>),
               S(<<"a","9","a","9","a","9">>),
               S(<<"0","0","0","0","0","0">>)>>,
             <<>>, <<"aro">>, TRUE, TRUE),
    FlagInit(<<S(<<"9","9","c","6","e","9">>),
               S(<<"f","f","f","f","f","f">>),
               S(<<"9","9","c","6","e","9">>)>>,
             <<"achillean-flower.png">>, <<"achillean">>, TRUE, TRUE),
    FlagInit(<<S(<<"f","f","7","6","a","e">>),
               S(<<"f","f","a","f","d","0">>),
               S(<<"c","8","7","6","f","f">>),
               S(<<"b","0","d","5","f","f">>),
               S(<<"7","7","b","c","f","f">>)>>,
             <<>>, <<"xenogender">>, TRUE, TRUE),
    FlagInit(<<S(<<"f","f","f","f","f","f">>),
               S(<<"f","f","f","f","f","f">>),
               S(<<"6","c","0","1","6","e">>),
               S(<<"d","2","d","2","d","2">>),
               S(<<"d","2","d","2","d","2">>)>>,
             <<"demisexual-triangle.png">>, <<"demisexual">>, TRUE, TRUE)
    >>

het_flags == <<
    FlagInit(<<S(<<"#","e","4","0","3","0","3">>),
               S(<<"#","f","f","8","c","0","0">>),
               S(<<"#","f","f","e","d","0","0">>),
               S(<<"0","0","8","0","2","6">>),
               S(<<"0","0","4","d","f","f">>),
               S(<<"7","5","0","7","8","7">>)>>,
             <<"X.png">>, <<"gay">>, TRUE, TRUE),
    FlagInit(<<S(<<"#","3","e","3","e","3","e">>),
               S(<<"#","f","f","f","f","f","f">>),
               S(<<"#","3","e","3","e","3","e">>),
               S(<<"#","f","f","f","f","f","f">>),
               S(<<"#","3","e","3","e","3","e">>)>>,
             <<>>, <<"straight1">>, TRUE, TRUE),
    FlagInit(<<S(<<"f","1","9","f","3","2">>),
               S(<<"0","0","0","0","0","0">>)>>,
             <<>>, <<"superstraight">>, TRUE, TRUE),
    FlagInit(<<S(<<"#","f","f","f","f","f","f">>),
               S(<<"#","8","7","8","7","8","7">>),
               S(<<"#","4","0","4","0","4","0">>),
               S(<<"#","f","f","f","f","f","f">>),
               S(<<"#","8","7","8","7","8","7">>),
               S(<<"#","4","0","4","0","4","0">>)>>,
             <<>>, <<"allo">>, TRUE, TRUE),
    FlagInit(<<S(<<"2","7","0","1","6","c">>),
               S(<<"2","7","0","1","6","c">>),
               S(<<"6","4","4","f","6","3">>),
               S(<<"0","5","3","6","5","1">>),
               S(<<"0","5","3","6","5","1">>)>>,
             <<>>, <<"battleax bi">>, TRUE, TRUE),
    FlagInit(<<S(<<"f","f","7","9","c","5">>),
               S(<<"4","d","5","3","d","f">>)>>,
             <<"straight.png">>, <<"unnamed">>, TRUE, TRUE),
    FlagInit(<<S(<<"e","a","4","c","7","9">>),
               S(<<"4","2","3","f","4","0">>),
               S(<<"0","0","9","8","c","3">>)>>,
             <<"truscum.png">>, <<"truscum">>, TRUE, TRUE),
    FlagInit(<<S(<<"d","b","0","1","7","0">>),
               S(<<"0","7","0","5","a","4">>)>>,
             <<>>, <<"cis">>, TRUE, TRUE)
    >>

\* the FlagImage objects the two lists construct (main.py:271-287)
InitImages ==
    [id \in {"sapphic-flower.png", "achillean-flower.png",
             "demisexual-triangle.png", "X.png", "straight.png", "truscum.png"} |->
        FlagImageDefault(id, CASE id = "demisexual-triangle.png" -> "left"
                               [] id = "X.png" -> "static"
                               [] OTHER -> "center")]

---------------------------------------------------------------------------
(* update(frame_delta) *)

\* faulty variant of main.py:219-224: the index wraps to 1, not to 0
RECURSIVE WrapIndexOff(_, _)
WrapIndexOff(index, n) ==
    IF index >= n THEN WrapIndexOff(index - n + 1, n) ELSE index

\* main.py:219-224: `while index >= len(flags): index -= len(flags)`
RECURSIVE WrapIndex(_, _)
WrapIndex(index, n) == IF index >= n THEN WrapIndex(index - n, n) ELSE index

\* faulty variant of main.py:219: `>` for `>=`
RECURSIVE WrapCountLate(_, _)
WrapCountLate(index, n) ==
    IF index > n THEN 1 + WrapCountLate(index - n, n) ELSE 0

\* the number of iterations of the loop of main.py:219-222, each of which
\* calls pyglet.app.exit() when render is set
RECURSIVE WrapCount(_, _)
WrapCount(index, n) == IF index >= n THEN 1 + WrapCount(index - n, n) ELSE 0

\* main.py:229-232: bring the two flags to the same stripe count; split is
\* the flag Flag.split is called on, n its argument
Equalize(current_flag, next_flag) ==
    IF Len(current_flag.stripes) > Len(next_flag.stripes)
    THEN [current_flag |-> current_flag,
          next_flag |-> Split(next_flag, Len(current_flag.stripes)),
          split |-> "next",
          assert_ok |-> SplitAssert(next_flag, Len(current_flag.stripes))]
    ELSE IF Len(current_flag.stripes) < Len(next_flag.stripes)
    THEN [current_flag |-> Split(current_flag, Len(next_flag.stripes)),
          next_flag |-> next_flag,
          split |-> "current",
          assert_ok |-> SplitAssert(current_flag, Len(next_flag.stripes))]
    ELSE [current_flag |-> current_flag, next_flag |-> next_flag,
          split |-> "none", assert_ok |-> TRUE]

\* faulty variant of main.py:234-237: frame_delta is added in render mode too
AdvanceByDelta(time, delta) == DAdd(time, delta)

\* main.py:234-237: the time after the call
Advance(time, delta) ==
    IF render THEN DAdd(time, DDivInt(DInt(1), RENDER_FPS))
    ELSE DAdd(time, delta)

\* the frame_delta values the clock passes, in seconds
FrameDeltas == {DDivInt(DInt(k), 2^LiveBits) : k \in 1..MaxDelta}

\* main.py:233-237: the state after the call, tf the outcome of
\* transition_flags
UpdateReturn(delta, current_index, next_index, exit_calls, percent, eq, tf) ==
    /\ frame_delta' = delta
    /\ error' = tf.error
    /\ images' = tf.images
    /\ running' = (exit_calls = 0 /\ tf.error = "none")
    /\ last' = [called |-> TRUE,
                start_time |-> current_time,
                current_index |-> current_index,
                next_index |-> next_index,
                exit_calls |-> exit_calls,
                percent |-> percent,
                split |-> eq.split,
                flag1 |-> eq.current_flag,
                flag2 |-> eq.next_flag,
                tf |-> tf]
    /\ IF tf.error = "none"
       THEN /\ draw_flag' = tf.flag
            /\ current_time' = Advance(current_time, delta)
       ELSE UNCHANGED <<draw_flag, current_time>>

\* main.py:226-233: the two flags, equalized, and their transition
UpdateFlags(delta, current_index, next_index, exit_calls, percent, eq) ==
    UpdateReturn(delta, current_index, next_index, exit_calls, percent, eq,
                 IF eq.assert_ok
                 THEN TransitionFlags(eq.current_flag, eq.next_flag, percent,
                                      images)
                 ELSE Raised("AssertionError", images))

\* main.py:217-228: the two indices and the percent at index0 =
\* floor(current_time / time_to_transition)
UpdateAt(delta, index0, current_index, next_index) ==
    UpdateFlags(delta, current_index, next_index,
                IF render THEN WrapCount(index0, Len(flags)) ELSE 0,
                DMod1(DDivInt(current_time, time_to_transition)),
                Equalize(flags[current_index + 1], flags[next_index + 1]))

\* pyglet.clock calls update while the event loop runs (main.py:300-301); an
\* exception or pyglet.app.exit() ends the loop.  Live mode runs for ever:
\* it is followed up to MaxTime
UpdateEnabled == running /\ (render \/ DLe(current_time, DInt(MaxTime)))

\* one call of update(delta) by the clock
Update(delta) ==
    /\ UpdateEnabled
    /\ UpdateAt(delta,
                DFloor(DDivInt(current_time, time_to_transition)),
                WrapIndex(DFloor(DDivInt(current_time, time_to_transition)),
                          Len(flags)),
                WrapIndex(DFloor(DDivInt(current_time, time_to_transition)) + 1,
                          Len(flags)))
    /\ UNCHANGED <<render, call, ret>>

NoCall == [op |-> "none"]

\* main.py:291-301: the module state when pyglet.app.run() starts
Init ==
    /\ current_time = DInt(0)
    /\ draw_flag = flags[1]
    /\ images = InitImages
    /\ render \in BOOLEAN
    /\ running = TRUE
    /\ frame_delta = DInt(0)
    /\ last = [called |-> FALSE]
    /\ error = "none"
    /\ call = NoCall
    /\ ret = NoCall

Next == \E delta \in FrameDeltas : Update(delta)

Spec == Init /\ [][Next]_vars

---------------------------------------------------------------------------
(* Flag(), Flag.split and the equalized transition of update(), each called
   once on arguments drawn from bounded sets; the event loop is not running *)

\* colour strings: two spellings of white and a red
Palette ==
    {<<"#", "f", "f", "f", "f", "f", "f">>, <<"F", "F", "F", "F", "F", "F">>,
     <<"e", "4", "0", "3", "0", "3">>}

ColourLists == UNION {[1..n -> Palette] : n \in 1..MaxStripes}

\* every flag the module constructs
Library == flags \o het_flags

FlagCalls ==
    {[op |-> "Flag", stripes |-> s, reverse |-> r, allow_stripes_to_combine |-> c] :
        s \in ColourLists, r \in BOOLEAN, c \in BOOLEAN}

SplitCalls ==
    {[op |-> "split", self |-> f, num_of_stripes |-> n] :
        f \in {FlagInit([i \in 1..Len(s) |-> S(s[i])], <<>>, <<"unnamed">>,
                        FALSE, c) : s \in ColourLists, c \in BOOLEAN}
              \cup {Library[i] : i \in 1..Len(Library)},
        n \in 1..MaxSplit}

\* two different flag objects and a percent in [0, 1)
TransitionCalls ==
    {[op |-> "transition", current_flag |-> Library[p[1]],
      next_flag |-> Library[p[2]], percent |-> DDivInt(DInt(k), 2^PctBits)] :
        p \in {q \in (1..Len(Library)) \X (1..Len(Library)) : q[1] # q[2]},
        k \in 0..2^PctBits - 1}

FnInit ==
    /\ current_time = DInt(0)
    /\ draw_flag = flags[1]
    /\ images = InitImages
    /\ render = TRUE
    /\ running = FALSE
    /\ frame_delta = DInt(0)
    /\ last = [called |-> FALSE]
    /\ error = "none"
    /\ call \in FlagCalls \cup SplitCalls \cup TransitionCalls
    /\ ret = NoCall

\* Flag(stripes, reverse=..., allow_stripes_to_combine=...)
CallFlag ==
    /\ call.op = "Flag"
    /\ ret = NoCall
    /\ ret' = [op |-> "Flag",
               value |-> FlagInit([i \in 1..Len(call.stripes) |-> S(call.stripes[i])],
                                  <<>>, <<"unnamed">>, call.reverse,
                                  call.allow_stripes_to_combine)]
    /\ UNCHANGED <<current_time, draw_flag, images, render, running,
                   frame_delta, last, error, call>>

\* self.split(num_of_stripes)
CallSplit ==
    /\ call.op = "split"
    /\ ret = NoCall
    /\ error = "none"
    /\ IF SplitAssert(call.self, call.num_of_stripes)
       THEN /\ ret' = [op |-> "split",
                       value |-> Split(call.self, call.num_of_stripes)]
            /\ error' = error
       ELSE /\ error' = "AssertionError"
            /\ ret' = ret
    /\ UNCHANGED <<current_time, draw_flag, images, render, running,
                   frame_delta, last, call>>

\* main.py:233 on the equalized flags eq
TransitionOf(eq, percent) ==
    IF eq.assert_ok
    THEN TransitionFlags(eq.current_flag, eq.next_flag, percent, images)
    ELSE Raised("AssertionError", images)

\* what the call returned or raised
CallTransitionReturn(eq, tf) ==
    /\ ret' = [op |-> "transition", flag1 |-> eq.current_flag,
               flag2 |-> eq.next_flag, split |-> eq.split, value |-> tf]
    /\ images' = tf.images
    /\ error' = tf.error

\* main.py:229-233 on call.current_flag, call.next_flag and call.percent
CallTransition ==
    /\ call.op = "transition"
    /\ ret = NoCall
    /\ CallTransitionReturn(Equalize(call.current_flag, call.next_flag),
                            TransitionOf(Equalize(call.current_flag, call.next_flag),
                                         call.percent))
    /\ UNCHANGED <<current_time, draw_flag, render, running, frame_delta,
                   last, call>>

FnNext == CallFlag \/ CallSplit \/ CallTransition

FnSpec == FnInit /\ [][FnNext]_vars

\* the running program and the single calls together
AllSpec == (Init \/ FnInit) /\ [][Next \/ FnNext]_vars

---------------------------------------------------------------------------
(* Properties *)

Sizes(stripes) == [i \in 1..Len(stripes) |-> stripes[i].size]

\* every height is >= 0 and the heights sum to exactly 1
HeightsOk(stripes) ==
    /\ \A i \in 1..Len(stripes) : RLe(RInt(0), stripes[i].size)
    /\ RSum(Sizes(stripes)) = RInt(1)

\* the length of one cycle of the timeline, in seconds
TotalDuration == Len(flags) * time_to_transition

RECURSIVE Refines(_, _)
Refines(orig, split) ==
    IF orig = <<>>
    THEN split = <<>>
    ELSE \E m \in 1..Len(split) :
            /\ \A i \in 1..m : split[i].color = Head(orig).color
            /\ RSum(Sizes(SubSeq(split, 1, m))) = Head(orig).size
            /\ Refines(Tail(orig), SubSeq(split, m + 1, Len(split)))

MidpointOk(stripes, index, fraction) ==
    /\ index \in 0..Len(stripes) - 1
    /\ RLt(RInt(0), fraction)
    /\ RLe(fraction, RInt(1))
    /\ RAdd(RSum(Sizes(SubSeq(stripes, 1, index))),
            RMul(stripes[index + 1].size, fraction)) = Rat(1, 2)

C4_CyclicTimeline ==
    last.called =>
        /\ last.current_index =
              DFloor(DDivInt(last.start_time, time_to_transition)) % Len(flags)
        /\ last.next_index = (last.current_index + 1) % Len(flags)
        /\ last.current_index \in 0..Len(flags) - 1
        /\ last.next_index \in 0..Len(flags) - 1
        /\ last.current_index = Len(flags) - 1 => last.next_index = 0
        /\ last.flag1.name = flags[last.current_index + 1].name
        /\ last.flag2.name = flags[last.next_index + 1].name

\* C4 witness: a call in the second pass over the timeline, with the first
\* flag current again
C4_Witness ==
    /\ last.called
    /\ ~render
    /\ DLt(DInt(TotalDuration), last.start_time)
    /\ last.current_index = 0
    /\ last.next_index = 1

\* a mod m for a float a >= 0 and an integer m > 0 (exact)
TimeMod(a, m) == <<a[1] % m, a[2], a[3], a[4]>>

\* the float 1.0 / RENDER_FPS
RenderStep == DDivInt(DInt(1), RENDER_FPS)

\* the flags and the percent of the last call are those of its start time
\* modulo the total duration
PickedByTime ==
    /\ last.current_index =
          DFloor(DDivInt(TimeMod(last.start_time, TotalDuration),
                         time_to_transition))
    /\ last.percent =
          DMod1(DDivInt(TimeMod(last.start_time, TotalDuration),
                        time_to_transition))

\* C5 (as claimed): each update(frame_delta) call advances current_time by
\* exactly the frame_delta it was given, and the flags are picked from that
\* time modulo len(flags) * time_to_transition.
C5_WallTime ==
    last.called /\ error = "none" =>
        /\ current_time = DAdd(last.start_time, frame_delta)
        /\ PickedByTime

\* C5 (amended): update(frame_delta) advances current_time by frame_delta
\* when render is False and by 1 / RENDER_FPS, whatever frame_delta is, when
\* render is True; the flags are picked from that time modulo
\* len(flags) * time_to_transition.
C5_AnimationTime ==
    last.called /\ error = "none" =>
        /\ current_time =
              DAdd(last.start_time,
                   IF render THEN RenderStep ELSE frame_delta)
        /\ PickedByTime

\* C5 witness: a live-mode call, past the first cycle, given the largest
\* frame_delta
C5_Witness ==
    /\ last.called
    /\ ~render
    /\ frame_delta = DDivInt(DInt(MaxDelta), 2^LiveBits)
    /\ DLt(DInt(TotalDuration), last.start_time)

Max(a, b) == IF a > b THEN a ELSE b

\* C6: the two flags update() passes to transition_flags have the same
\* number of stripes, the larger of the two timeline flags' counts; split is
\* called only on the flag with strictly fewer stripes, so its assertion
\* never fails; Flag.split(n) returns exactly n stripes for n > k >= 1.
C6_Equalized ==
    /\ last.called =>
          /\ error \notin {"AssertionError", "IndexError"}
          /\ Len(last.flag1.stripes) = Len(last.flag2.stripes)
          /\ Len(last.flag1.stripes) =
                Max(Len(flags[last.current_index + 1].stripes),
                    Len(flags[last.next_index + 1].stripes))
          /\ last.split = "current" =>
                Len(flags[last.current_index + 1].stripes)
                   < Len(flags[last.next_index + 1].stripes)
          /\ last.split = "next" =>
                Len(flags[last.next_index + 1].stripes)
                   < Len(flags[last.current_index + 1].stripes)
    /\ ret.op = "split" => Len(ret.value.stripes) = call.num_of_stripes
    /\ call.op = "split" /\ call.num_of_stripes > Len(call.self.stripes) =>
          error = "none"
    /\ ret.op = "transition" =>
          /\ error = "none"
          /\ Len(ret.flag1.stripes) = Len(ret.flag2.stripes)
          /\ Len(ret.flag1.stripes) =
                Max(Len(call.current_flag.stripes), Len(call.next_flag.stripes))

\* C6 witness: update() has split the next flag into at least two more
\* stripes
C6_Witness ==
    /\ last.called
    /\ last.split = "next"
    /\ Len(last.flag2.stripes) >= Len(flags[last.next_index + 1].stripes) + 2
    /\ error = "none"

\* the colour Flag() parses from a colour string
ColourOf(s) == InputStripe(S(s), 1).color

\* the first positions of the runs of equal colours in the colour list c
RunStarts(c) == {i \in 1..Len(c) : i = 1 \/ ColourOf(c[i]) # ColourOf(c[i - 1])}

\* the start of the j-th run
RunStart(c, j) ==
    CHOOSE s \in RunStarts(c) : Cardinality({x \in RunStarts(c) : x <= s}) = j

\* the number of stripes of the run that starts at s
RunLength(c, s) ==
    Cardinality({e \in s..Len(c) : \A k \in s..e : ColourOf(c[k]) = ColourOf(c[s])})

\* one stripe per run of c, of the run's colour and summed height
MergedRuns(c) ==
    [j \in 1..Cardinality(RunStarts(c)) |->
        [color |-> ColourOf(c[RunStart(c, j)]),
         size |-> Rat(RunLength(c, RunStart(c, j)), Len(c))]]

\* C7: Flag(stripes) with allow_stripes_to_combine=True merges every run of
\* adjacent input stripes of equal colour into one stripe of that colour and
\* of the run's summed height: no two adjacent stripes have equal colours,
\* the order is kept (reversed when reverse=True), the total height is the
\* input's; the 'bi' flag has 3 stripes of heights 2/5, 1/5, 2/5.
C7_MergeRuns ==
    /\ ret.op = "Flag" /\ call.allow_stripes_to_combine =>
          /\ ret.value.stripes =
                IF call.reverse THEN Reverse(MergedRuns(call.stripes))
                ELSE MergedRuns(call.stripes)
          /\ \A i \in 1..Len(ret.value.stripes) - 1 :
                ret.value.stripes[i].color # ret.value.stripes[i + 1].color
          /\ RSum(Sizes(ret.value.stripes)) = RInt(1)
    /\ Sizes(flags[4].stripes) = <<Rat(2, 5), Rat(1, 5), Rat(2, 5)>>

\* C7 witness: four colour strings, reversed, merged into two stripes
C7_Witness ==
    /\ ret.op = "Flag"
    /\ call.allow_stripes_to_combine
    /\ call.reverse
    /\ Len(call.stripes) = 4
    /\ Sizes(ret.value.stripes) = <<Rat(1, 4), Rat(3, 4)>>

\* the ids of the images of flag f
ImageIds(f) == {f.images[i] : i \in 1..Len(f.images)}

\* image `b` is image `a` after transition_flags handled it: `y` is the
\* midpoint height of its flag, `x` the left anchor
ImageMoved(a, b, x, y) ==
    /\ b.opacity \in 0..255
    /\ b.scale = a.scale /\ b.type = a.type /\ b.sprite = a.sprite
    /\ b.name = a.name
    /\ a.type = "center" => b.y = y /\ b.x = a.x
    /\ a.type = "left" => b.x = x /\ b.y = a.y
    /\ a.type = "static" => b.x = a.x /\ b.y = a.y

\* the images before (old) and after (new) a transition_flags(f1, f2, p)
\* call that returned tf
ImagesMoved(old, new, f1, f2, p, tf) ==
    /\ tf.error = "none"
    /\ tf.flag.images = f1.images \o f2.images
    /\ \A id \in DOMAIN old :
          /\ id \in ImageIds(f1) =>
                ImageMoved(old[id], new[id],
                           RMul(Rat(1, 2), RSub(RInt(1), Eased(p))),
                           tf.height_of_midpoint_1)
          /\ id \in ImageIds(f2) =>
                ImageMoved(old[id], new[id],
                           RMul(Rat(1, 2), Eased(p)),
                           tf.height_of_midpoint_2)
          /\ id \notin ImageIds(f1) \cup ImageIds(f2) => new[id] = old[id]

\* C8: transition_flags changes, on each overlay image of the two flags,
\* only the opacity and the coordinate of the image's placement mode: y of a
\* 'center' image (its flag's interpolated midpoint height), x of a 'left'
\* image (0.5 -> 0 outgoing, 0 -> 0.5 incoming), neither of a 'static'
\* image; scale, type and sprite never change; the returned flag carries the
\* outgoing flag's images followed by the incoming flag's.
C8_ImagesOnlyMoved ==
    [][/\ last' # last =>
             ImagesMoved(images, images', last'.flag1, last'.flag2,
                         last'.percent, last'.tf)
       /\ ret' # ret /\ ret'.op = "transition" =>
             ImagesMoved(images, images', ret'.flag1, ret'.flag2,
                         call.percent, ret'.value)]_vars

\* C8 witness: halfway from a flag with a 'static' image to a flag with a
\* 'left' image, the incoming image a quarter in
C8_Witness ==
    /\ ret.op = "transition"
    /\ ret.flag1.images = <<"X.png">>
    /\ ret.flag2.images = <<"demisexual-triangle.png">>
    /\ call.percent = DDivInt(DInt(1), 2)
    /\ images["demisexual-triangle.png"].x = Rat(1, 4)
    /\ images["X.png"].opacity = 127

\* C9: at the start of a time slot (percent_between_flags = 0) the frame is
\* the current timeline flag: draw_flag has its stripes (count, colours and
\* heights), its images have opacity 255 ('center' at y = 0.5, 'left' at
\* x = 0.5) and the next flag's images have opacity 0.
C9_SlotStart ==
    last.called /\ last.percent = DInt(0) =>
        /\ error = "none"
        /\ draw_flag.stripes = flags[last.current_index + 1].stripes
        /\ \A id \in ImageIds(flags[last.current_index + 1]) :
              /\ images[id].opacity = 255
              /\ images[id].type = "center" => images[id].y = Rat(1, 2)
              /\ images[id].type = "left" => images[id].x = Rat(1, 2)
        /\ \A id \in ImageIds(flags[last.next_index + 1]) :
              images[id].opacity = 0

\* C9 witness: a slot start whose current flag has an image and was split
\* for the transition
C9_Witness ==
    /\ last.called
    /\ last.percent = DInt(0)
    /\ last.split = "current"
    /\ flags[last.current_index + 1].images # <<>>
    /\ Len(last.flag1.stripes) > Len(draw_flag.stripes)

\* pyglet.app.exit() was requested in the last update() call
ExitRequested == last.called /\ last.exit_calls > 0

\* the clock after n further render-mode calls, s = [t |-> clock, n |-> n]
RECURSIVE Advances(_)
Advances(s) ==
    IF s.n = 0 THEN s.t
    ELSE Advances([t |-> DAdd(s.t, RenderStep), n |-> s.n - 1])

\* the render-mode clock after k slots, i.e. after
\* k * RENDER_FPS * time_to_transition advances from 0
RECURSIVE AfterSlots(_)
AfterSlots(k) ==
    IF k = 0 THEN DInt(0)
    ELSE Advances([t |-> AfterSlots(k - 1), n |-> RENDER_FPS * time_to_transition])

\* in render mode every update() advances current_time by 1.0 / RENDER_FPS
\* whatever frame_delta is, and requests exit in exactly the calls that start
\* at current_time >= len(flags) * time_to_transition.  Termination, as what
\* every finite run shows: until exit is requested the clock still calls
\* update() and current_time, which every call advances, is less than one
\* advance past len(flags) * time_to_transition.  With render = False exit is
\* never requested.
RenderRun ==
    /\ last.called /\ render /\ error = "none" =>
          /\ current_time = DAdd(last.start_time, RenderStep)
          /\ DLt(last.start_time, current_time)
    /\ last.called =>
          (last.exit_calls > 0
              <=> render /\ DLe(DInt(TotalDuration), last.start_time))
    /\ ExitRequested => ~running
    /\ render /\ ~ExitRequested =>
          /\ UpdateEnabled
          /\ DLt(current_time, DAdd(DInt(TotalDuration), RenderStep))
    /\ ~render => running /\ ~ExitRequested

\* C10 (as claimed): RenderRun, and exit is requested first after
\* RENDER_FPS * len(flags) * time_to_transition time advances: the call that
\* requests it starts at the clock value those advances give.
C10_ExitAfterOnePass ==
    /\ RenderRun
    /\ ExitRequested => last.start_time = AfterSlots(Len(flags))

\* C10 (amended): RenderRun, and exit is requested first after
\* RENDER_FPS * len(flags) * time_to_transition + 1 time advances: the float
\* sum of the first RENDER_FPS * len(flags) * time_to_transition advances is
\* below len(flags) * time_to_transition, so the call that starts there does
\* not request exit and the next one does.
C10_RenderTerminates ==
    /\ RenderRun
    /\ ExitRequested =>
          /\ DLt(AfterSlots(Len(flags)), DInt(TotalDuration))
          /\ last.start_time = DAdd(AfterSlots(Len(flags)), RenderStep)

\* C10 witness: the render has requested exit, in a call that started past
\* the end of the timeline
C10_Witness ==
    /\ render
    /\ ExitRequested
    /\ ~running
    /\ DLt(DInt(TotalDuration), last.start_time)
    /\ frame_delta = DDivInt(DInt(MaxDelta), 2^LiveBits)

============================================================================
